---- MODULE Spec2Model ----
(***************************************************************************)
(* pg_timetable scheduler runtime: the chain workers of                    *)
(* internal/scheduler/chain.go (channel, exclusive/shared latch, active    *)
(* chains registry, chain and task execution), the program runner of       *)
(* internal/scheduler/shell.go and the crash repair and client-name lock   *)
(* of internal/pgengine/access.go.                                         *)
(***************************************************************************)
EXTENDS Integers, Sequences, FiniteSets, TLC

(* ---------------------------------------------------------------- bounds *)
CronWorkers == 2
NumChains == 2
MaxSends == 3
MaxTasks == 2
MaxInst == 2

Workers == 1..CronWorkers
ChainIDs == 1..NumChains
NoWorker == 0
NoChain == 0
ChanCap == CronWorkers

TaskKinds == {"SQL", "PROGRAM", "BUILTIN"}
ChainTask == [Kind : TaskKinds, IgnoreError : BOOLEAN]
Chain == [ExclusiveExecution : BOOLEAN, MaxInstances : 1..MaxInst,
          SelfDestruct : BOOLEAN, Timeout : {0, 1}]

RECURSIVE SeqsUpTo(_, _)
SeqsUpTo(S, n) ==
  IF n = 0 THEN {<<>>}
  ELSE LET shorter == SeqsUpTo(S, n - 1)
       IN shorter \cup {Append(s, x) : s \in {t \in shorter : Len(t) = n - 1}, x \in S}

Range(s) == {s[i] : i \in 1..Len(s)}

VARIABLES
  chains,          \* chain_execution_config rows, by chain id
  task_chain,      \* the tasks GetChainElements returns, by chain id
  NoProgramTasks,  \* pgengine.NoProgramTasks
  chainsChan,      \* sch.chainsChan
  sent,            \* number of SendChain calls made so far
  rootDone,        \* the root context is cancelled
  exclusiveMutex,  \* sch.exclusiveMutex: [w: writer or NoWorker, r: readers]
  activeChains,    \* sch.activeChains: chain id -> owner of the cancel handle
  running,         \* open run-status records, by chain id
  pc,              \* position of each chainWorker
  chain,           \* the chain a worker received
  ctxDone,         \* the worker's chain context is cancelled (STOP, timeout)
  idx,             \* index of the current task in executeChain's loop
  dbCalls,         \* the calls executeChain has issued in this execution
  elems            \* outcome of every executeChainElement call of this execution

schedVars == <<chains, task_chain, NoProgramTasks, chainsChan, sent, rootDone,
               exclusiveMutex, activeChains, running, pc, chain, ctxDone, idx,
               dbCalls, elems>>

VARIABLES
  run_status,      \* timetable.run_status, in insertion order
  fixBefore,       \* run_status as the last FixSchedulerCrash found it
  fixClient,       \* the client of the last FixSchedulerCrash, "" before any
  fixRuns          \* FixSchedulerCrash runs of fixClient since the last other write

fixVars == <<run_status, fixBefore, fixClient, fixRuns>>

VARIABLES
  ClientName,      \* the client name of each daemon
  WaitTime,        \* initial wait of the lock retry, in seconds
  maxWaitTime,     \* the wait stops doubling once it has reached this
  advisoryLock,    \* holder of each advisory lock of the database, by key
  lpc,             \* position of each daemon in TryLockClientName
  res,             \* TryLockClientName's res
  wt,              \* TryLockClientName's wt
  lctxDone,        \* the daemon's context is cancelled
  returned         \* the value TryLockClientName returned

lockVars == <<ClientName, WaitTime, maxWaitTime, advisoryLock, lpc, res, wt,
              lctxDone, returned>>

VARIABLES
  o,               \* the ExecuteProgramOptions passed in
  command,         \* the local command
  paramValues,     \* the local paramValues
  ppc,             \* position in ExecuteProgramCommandWithOptions
  pi,              \* index of the current entry of paramValues
  invoked,         \* the invocations made: command, argv, exit and output
  code,            \* the returned code
  stdout,          \* the returned stdout
  stderr           \* whether the returned error is non-nil

progVars == <<o, command, paramValues, ppc, pi, invoked, code, stdout, stderr>>

VARIABLES
  apc,             \* position of retrieveAsyncChainsAndRun
  chainSignal,     \* the signal WaitForChainSignal returned
  sendLog          \* what became of each chain the async intake sent

intakeVars == <<apc, chainSignal, sendLog>>

VARIABLES
  bpc,             \* position of main in its loop around sch.Run
  runResult,       \* what the last sch.Run returned
  connected,       \* the database connection is alive
  runs,            \* calls of sch.Run so far
  fixes            \* calls of ReconnectAndFixLeftovers so far

bootVars == <<bpc, runResult, connected, runs, fixes>>

VARIABLES
  activeChainMutex, \* sch.activeChainMutex: its holder, or NoWorker
  tpc               \* position of terminateChains

regVars == <<activeChainMutex, tpc>>

vars == <<schedVars, fixVars, lockVars, progVars, intakeVars, bootVars, regVars>>
notSched == <<fixVars, lockVars, progVars, intakeVars, bootVars, regVars>>
notFix == <<schedVars, lockVars, progVars, intakeVars, bootVars, regVars>>
notLock == <<schedVars, fixVars, progVars, intakeVars, bootVars, regVars>>
notProg == <<schedVars, fixVars, lockVars, intakeVars, bootVars, regVars>>
notIntake == <<fixVars, lockVars, progVars, bootVars, regVars>>
notBoot == <<fixVars, lockVars, progVars, regVars>>
notReg == <<fixVars, lockVars, progVars, bootVars>>

(* ------------------------------------------------------------ the latch *)
\* sync.RWMutex: a writer first excludes new readers, then waits for the
\* active readers to leave.
WLockReady(m) == m.w = NoWorker
WLockHeld(m, w) == m.w = w /\ m.r = {}
RLockReady(m) == m.w = NoWorker

LockAlwaysShared(exclusiveExecution) == "RLock"
Lock(exclusiveExecution) == IF exclusiveExecution THEN "Lock" ELSE "RLock"

Unlock(m, w, exclusiveExecution) ==
  IF exclusiveExecution THEN [m EXCEPT !.w = NoWorker]
  ELSE [m EXCEPT !.r = @ \ {w}]

(* ------------------------------------------------------------- contexts *)
\* chainContext is derived from the worker's ctx: it is done when the root
\* context is, or when its own cancel handle or timeout fired.
ChainCtxDone(w) == rootDone \/ ctxDone[w]

Max(t1, t2) == IF t1 > t2 THEN t1 ELSE t2
ChainTimeout == 0
TaskTimeout == 0
HasTimeout(t1, t2) == Max(t1, t2) > 0

(* ------------------------------------------------------------ producers *)
\* SendChain: a non-blocking send, the chain is dropped when the channel is full
\* select { case sch.chainsChan <- c: ... default: ... }
ChanSendDropOldest(ch, c) ==
  IF Len(ch) < ChanCap THEN Append(ch, c) ELSE Append(Tail(ch), c)
ChanSend(ch, c) == IF Len(ch) < ChanCap THEN Append(ch, c) ELSE ch

SendChain(c) ==
  /\ sent < MaxSends
  /\ sent' = sent + 1
  /\ chainsChan' = ChanSend(chainsChan, c)
  /\ UNCHANGED notSched
  /\ UNCHANGED <<chains, task_chain, NoProgramTasks, rootDone, exclusiveMutex,
                 activeChains, running, pc, chain, ctxDone, idx, dbCalls, elems>>

\* if cancel, ok := sch.activeChains[chainSignal.ConfigID]; ok { cancel() }:
\* the workers whose cancel handle is invoked
CancelTargetsOrRunning(c) ==
  IF activeChains[c] # NoWorker THEN {activeChains[c]}
  ELSE {w \in Workers : chain[w] # NoChain /\ activeChains[chain[w]] = w}
CancelTargets(c) == IF activeChains[c] # NoWorker THEN {activeChains[c]} ELSE {}

\* retrieveAsyncChainsAndRun, case "STOP", with an entry in the registry
AsyncStop(c) ==
  /\ CancelTargets(c) # {}
  /\ ctxDone' = [w \in Workers |-> ctxDone[w] \/ w \in CancelTargets(c)]
  /\ UNCHANGED notSched
  /\ UNCHANGED <<chains, task_chain, NoProgramTasks, chainsChan, sent, rootDone,
                 exclusiveMutex, activeChains, running, pc, chain, idx, dbCalls,
                 elems>>

\* the signal handler of main cancels the root context
CancelRoot ==
  /\ ~rootDone
  /\ rootDone' = TRUE
  /\ UNCHANGED notSched
  /\ UNCHANGED <<chains, task_chain, NoProgramTasks, chainsChan, sent,
                 exclusiveMutex, activeChains, running, pc, chain, ctxDone, idx,
                 dbCalls, elems>>

(* -------------------------------------------------------- the run status *)
\* InsertChainRunStatus(chainID, maxInstances): refuses when the running-jobs
\* count of the chain has reached maxInstances or the statement failed,
\* otherwise opens a run-status record.
InsertChainRunStatus(c, maxInstances, dbOk) == dbOk /\ running[c] < maxInstances

\* RemoveChainRunStatus(chainID): closes a run-status record of the chain.
RemoveChainRunStatus(c) ==
  [running EXCEPT ![c] = IF @ > 0 THEN @ - 1 ELSE 0]

\* A statement on a cancelled context fails; otherwise it may fail or not.
DbOutcomes(done) == IF done THEN {FALSE} ELSE BOOLEAN

Call(op, bg) == [op |-> op, bg |-> bg]
Ops(w) == {dbCalls[w][i].op : i \in 1..Len(dbCalls[w])}
Count(w, op) == Cardinality({i \in 1..Len(dbCalls[w]) : dbCalls[w][i].op = op})

(* ----------------------------------------------------------- chainWorker *)
\* outer select: the context is checked first
WorkerCheckCtx(w) ==
  /\ pc[w] = "select"
  /\ pc' = [pc EXCEPT ![w] = IF rootDone THEN "exited" ELSE "wait"]
  /\ UNCHANGED notSched
  /\ UNCHANGED <<chains, task_chain, NoProgramTasks, chainsChan, sent, rootDone,
                 exclusiveMutex, activeChains, running, chain, ctxDone, idx,
                 dbCalls, elems>>

\* inner select, case chain := <-chains
WorkerReceive(w) ==
  /\ pc[w] = "wait"
  /\ chainsChan # <<>>
  /\ chain' = [chain EXCEPT ![w] = Head(chainsChan)]
  /\ chainsChan' = Tail(chainsChan)
  /\ pc' = [pc EXCEPT ![w] = "admit"]
  /\ UNCHANGED notSched
  /\ UNCHANGED <<chains, task_chain, NoProgramTasks, sent, rootDone,
                 exclusiveMutex, activeChains, running, ctxDone, idx, dbCalls,
                 elems>>

\* inner select, case <-ctx.Done()
WorkerCtxDone(w) ==
  /\ pc[w] = "wait"
  /\ rootDone
  /\ pc' = [pc EXCEPT ![w] = "exited"]
  /\ UNCHANGED notSched
  /\ UNCHANGED <<chains, task_chain, NoProgramTasks, chainsChan, sent, rootDone,
                 exclusiveMutex, activeChains, running, chain, ctxDone, idx,
                 dbCalls, elems>>

AfterAdmitAlways(admitted) == "lock"
AfterAdmit(admitted) == IF admitted THEN "lock" ELSE "select"

\* if !InsertChainRunStatus(ctx, chain.ChainID, chain.MaxInstances) { continue }
WorkerAdmit(w) ==
  /\ pc[w] = "admit"
  /\ \E dbOk \in DbOutcomes(rootDone) :
       LET c == chain[w]
           admitted == InsertChainRunStatus(c, chains[c].MaxInstances, dbOk)
       IN /\ running' = IF admitted THEN [running EXCEPT ![c] = @ + 1] ELSE running
          /\ pc' = [pc EXCEPT ![w] = AfterAdmit(admitted)]
          /\ chain' = [chain EXCEPT ![w] = IF AfterAdmit(admitted) = "lock" THEN c
                                           ELSE NoChain]
  /\ UNCHANGED notSched
  /\ UNCHANGED <<chains, task_chain, NoProgramTasks, chainsChan, sent, rootDone,
                 exclusiveMutex, activeChains, ctxDone, idx, dbCalls, elems>>

\* sch.Lock(chain.ExclusiveExecution)
WorkerLock(w) ==
  /\ pc[w] = "lock"
  /\ IF Lock(chains[chain[w]].ExclusiveExecution) = "Lock"
     THEN /\ WLockReady(exclusiveMutex)
          /\ exclusiveMutex' = [exclusiveMutex EXCEPT !.w = w]
          /\ pc' = [pc EXCEPT ![w] = "lockWait"]
     ELSE /\ RLockReady(exclusiveMutex)
          /\ exclusiveMutex' = [exclusiveMutex EXCEPT !.r = @ \cup {w}]
          /\ pc' = [pc EXCEPT ![w] = "register"]
  /\ UNCHANGED notSched
  /\ UNCHANGED <<chains, task_chain, NoProgramTasks, chainsChan, sent, rootDone,
                 activeChains, running, chain, ctxDone, idx, dbCalls, elems>>

\* the writer waits for the active readers to leave
WorkerLockWait(w) ==
  /\ pc[w] = "lockWait"
  /\ WLockHeld(exclusiveMutex, w)
  /\ pc' = [pc EXCEPT ![w] = "register"]
  /\ UNCHANGED notSched
  /\ UNCHANGED <<chains, task_chain, NoProgramTasks, chainsChan, sent, rootDone,
                 exclusiveMutex, activeChains, running, chain, ctxDone, idx,
                 dbCalls, elems>>

addActiveChain(id, cancel) == [activeChains EXCEPT ![id] = cancel]
deleteActiveChain(id) == [activeChains EXCEPT ![id] = NoWorker]

\* chainContext, cancel := context.WithCancel(chainContext); addActiveChain
WorkerAddActive(w) ==
  /\ pc[w] = "register"
  /\ activeChains' = addActiveChain(chain[w], w)
  /\ ctxDone' = [ctxDone EXCEPT ![w] = FALSE]
  /\ pc' = [pc EXCEPT ![w] = "startTx"]
  /\ UNCHANGED notSched
  /\ UNCHANGED <<chains, task_chain, NoProgramTasks, chainsChan, sent, rootDone,
                 exclusiveMutex, running, chain, idx, dbCalls, elems>>

\* sch.deleteActiveChain(chain.ChainID); cancel()
WorkerDeleteActive(w) ==
  /\ pc[w] = "delete"
  /\ activeChains' = deleteActiveChain(chain[w])
  /\ ctxDone' = [ctxDone EXCEPT ![w] = TRUE]
  /\ pc' = [pc EXCEPT ![w] = "unlock"]
  /\ UNCHANGED notSched
  /\ UNCHANGED <<chains, task_chain, NoProgramTasks, chainsChan, sent, rootDone,
                 exclusiveMutex, running, chain, idx, dbCalls, elems>>

\* sch.Unlock(chain.ExclusiveExecution), and back to the select
WorkerUnlock(w) ==
  /\ pc[w] = "unlock"
  /\ exclusiveMutex' = Unlock(exclusiveMutex, w, chains[chain[w]].ExclusiveExecution)
  /\ pc' = [pc EXCEPT ![w] = "select"]
  /\ chain' = [chain EXCEPT ![w] = NoChain]
  /\ ctxDone' = [ctxDone EXCEPT ![w] = FALSE]
  /\ idx' = [idx EXCEPT ![w] = 0]
  /\ dbCalls' = [dbCalls EXCEPT ![w] = <<>>]
  /\ elems' = [elems EXCEPT ![w] = <<>>]
  /\ UNCHANGED notSched
  /\ UNCHANGED <<chains, task_chain, NoProgramTasks, chainsChan, sent, rootDone,
                 activeChains, running>>

(* ---------------------------------------------------------- executeChain *)
InExecuteChain == {"startTx", "getElems", "params", "run", "check", "commit"}
Tasks(w) == task_chain[chain[w]]

\* getTimeoutContext: the chain context gets a deadline when a timeout is set
ChainTimeoutFires(w) ==
  /\ pc[w] \in InExecuteChain
  /\ HasTimeout(ChainTimeout, chains[chain[w]].Timeout)
  /\ ~ctxDone[w]
  /\ ctxDone' = [ctxDone EXCEPT ![w] = TRUE]
  /\ UNCHANGED notSched
  /\ UNCHANGED <<chains, task_chain, NoProgramTasks, chainsChan, sent, rootDone,
                 exclusiveMutex, activeChains, running, pc, chain, idx, dbCalls,
                 elems>>

\* tx, txid, err := StartTransaction(ctx, chain.ChainID); on error return
ExecStartTransaction(w) ==
  /\ pc[w] = "startTx"
  /\ \E ok \in DbOutcomes(ChainCtxDone(w)) :
       IF ok
       THEN /\ dbCalls' = [dbCalls EXCEPT ![w] = Append(@, Call("StartTransaction", FALSE))]
            /\ pc' = [pc EXCEPT ![w] = "getElems"]
       ELSE /\ dbCalls' = dbCalls
            /\ pc' = [pc EXCEPT ![w] = "delete"]
  /\ UNCHANGED notSched
  /\ UNCHANGED <<chains, task_chain, NoProgramTasks, chainsChan, sent, rootDone,
                 exclusiveMutex, activeChains, running, chain, ctxDone, idx, elems>>

\* err = GetChainElements(ctx, tx, &ChainTasks, chain.ChainID);
\* on error RollbackTransaction(ctx, tx) and return
ExecGetChainElements(w) ==
  /\ pc[w] = "getElems"
  /\ \E ok \in DbOutcomes(ChainCtxDone(w)) :
       IF ok
       THEN /\ dbCalls' = [dbCalls EXCEPT ![w] = Append(@, Call("GetChainElements", FALSE))]
            /\ idx' = [idx EXCEPT ![w] = 1]
            /\ pc' = [pc EXCEPT ![w] = IF Tasks(w) = <<>> THEN "commit" ELSE "params"]
       ELSE /\ dbCalls' = [dbCalls EXCEPT ![w] = Append(@, Call("RollbackTransaction", FALSE))]
            /\ idx' = idx
            /\ pc' = [pc EXCEPT ![w] = "delete"]
  /\ UNCHANGED notSched
  /\ UNCHANGED <<chains, task_chain, NoProgramTasks, chainsChan, sent, rootDone,
                 exclusiveMutex, activeChains, running, chain, ctxDone, elems>>

(* --------------------------------------------------- executeChainElement *)
Elem(ret, logs) == [ret |-> ret, logs |-> logs]

\* err = GetChainParamValues(ctx, tx, &paramValues, task); on error return -1
ElemGetParamValues(w) ==
  /\ pc[w] = "params"
  /\ \E ok \in DbOutcomes(ChainCtxDone(w)) :
       IF ok
       THEN /\ elems' = elems
            /\ pc' = [pc EXCEPT ![w] = "run"]
       ELSE /\ elems' = [elems EXCEPT ![w] = Append(@, Elem(-1, 0))]
            /\ pc' = [pc EXCEPT ![w] = "check"]
  /\ UNCHANGED notSched
  /\ UNCHANGED <<chains, task_chain, NoProgramTasks, chainsChan, sent, rootDone,
                 exclusiveMutex, activeChains, running, chain, ctxDone, idx, dbCalls>>

\* the (retCode, err # nil) pairs the dispatch by task.Kind can produce; a SQL
\* statement or a process start on a cancelled context fails
ExitCode == 1
TaskOutcomes(kind, done) ==
  CASE kind = "SQL" -> IF done THEN {<<0, TRUE>>} ELSE {<<0, FALSE>>, <<0, TRUE>>}
    [] kind = "PROGRAM" ->
         IF done THEN {<<-1, TRUE>>}
         ELSE {<<0, FALSE>>, <<ExitCode, TRUE>>, <<-1, TRUE>>}
    [] kind = "BUILTIN" -> {<<0, FALSE>>, <<0, TRUE>>}

\* if err != nil { if retCode == 0 { retCode = -1 } }
NormalizeRetCode(retCode, failed) == IF failed /\ retCode = 0 THEN -1 ELSE retCode

\* the switch on task.Kind, then LogChainElementExecution(context.Background(), ...)
ElemRun(w) ==
  /\ pc[w] = "run"
  /\ LET task == Tasks(w)[idx[w]]
     IN IF task.Kind = "PROGRAM" /\ NoProgramTasks
        THEN elems' = [elems EXCEPT ![w] = Append(@, Elem(-2, 0))]
        ELSE \E outcome \in TaskOutcomes(task.Kind, ChainCtxDone(w)) :
               elems' = [elems EXCEPT ![w] =
                           Append(@, Elem(NormalizeRetCode(outcome[1], outcome[2]), 1))]
  /\ pc' = [pc EXCEPT ![w] = "check"]
  /\ UNCHANGED notSched
  /\ UNCHANGED <<chains, task_chain, NoProgramTasks, chainsChan, sent, rootDone,
                 exclusiveMutex, activeChains, running, chain, ctxDone, idx, dbCalls>>

(* ------------------------------------------- executeChain, after a task *)
ChainFailsAlways(retCode, ignoreError) == retCode # 0
ChainFailsNever(retCode, ignoreError) == FALSE
ChainFails(retCode, ignoreError) == retCode # 0 /\ ~ignoreError

FailureCallsNoRemove == <<Call("RollbackTransaction", TRUE)>>
FailureCalls ==
  <<Call("RemoveChainRunStatus", TRUE), Call("RollbackTransaction", TRUE)>>

\* if retCode != 0 && !task.IgnoreError: RemoveChainRunStatus(bctx),
\* RollbackTransaction(bctx), return; otherwise the next task
ExecCheck(w) ==
  /\ pc[w] = "check"
  /\ LET task == Tasks(w)[idx[w]]
         retCode == elems[w][Len(elems[w])].ret
     IN IF ChainFails(retCode, task.IgnoreError)
        THEN /\ dbCalls' = [dbCalls EXCEPT ![w] = @ \o FailureCalls]
             /\ running' = IF \E i \in 1..Len(FailureCalls) :
                                FailureCalls[i].op = "RemoveChainRunStatus"
                           THEN RemoveChainRunStatus(chain[w]) ELSE running
             /\ idx' = idx
             /\ pc' = [pc EXCEPT ![w] = "delete"]
        ELSE /\ dbCalls' = dbCalls
             /\ running' = running
             /\ idx' = [idx EXCEPT ![w] = @ + 1]
             /\ pc' = [pc EXCEPT ![w] = IF idx[w] < Len(Tasks(w)) THEN "params"
                                        ELSE "commit"]
  /\ UNCHANGED notSched
  /\ UNCHANGED <<chains, task_chain, NoProgramTasks, chainsChan, sent, rootDone,
                 exclusiveMutex, activeChains, chain, ctxDone, elems>>

SuccessCallsAlwaysDelete(selfDestruct) ==
  <<Call("CommitTransaction", TRUE), Call("RemoveChainRunStatus", TRUE),
    Call("DeleteChainConfig", TRUE)>>
SuccessCalls(selfDestruct) ==
  <<Call("CommitTransaction", TRUE), Call("RemoveChainRunStatus", TRUE)>>
    \o (IF selfDestruct THEN <<Call("DeleteChainConfig", TRUE)>> ELSE <<>>)

\* after the loop: CommitTransaction(bctx), RemoveChainRunStatus(bctx) and,
\* if chain.SelfDestruct, DeleteChainConfig(bctx)
ExecCommit(w) ==
  /\ pc[w] = "commit"
  /\ dbCalls' = [dbCalls EXCEPT ![w] = @ \o SuccessCalls(chains[chain[w]].SelfDestruct)]
  /\ running' = RemoveChainRunStatus(chain[w])
  /\ pc' = [pc EXCEPT ![w] = "delete"]
  /\ UNCHANGED notSched
  /\ UNCHANGED <<chains, task_chain, NoProgramTasks, chainsChan, sent, rootDone,
                 exclusiveMutex, activeChains, chain, ctxDone, idx, elems>>

(* ----------------------------------------------------- FixSchedulerCrash *)
MaxRows == 3
NumStart == 2
MaxFixRuns == 2

ExecutionStatus == {"STARTED", "CHAIN_FAILED", "CHAIN_DONE", "DEAD"}
Clients == {"X", "Y"}
NoClient == ""
\* start_status is NULL in a row written without it
NullStart == -1
StartValues == {NullStart} \cup (1..NumStart)
RunStatusRow ==
  [execution_status : ExecutionStatus, start_status : StartValues, client_name : Clients]

\* WHERE execution_status IN (...) AND client_name = $1
SelectedAnyClient(row, client) == row.execution_status \in ExecutionStatus
Selected(row, client) ==
  row.execution_status \in ExecutionStatus /\ row.client_name = client

\* GROUP BY 1: the rows of one start_status (NULLs form one group)
GroupCount(table, client, s) ==
  Cardinality({i \in 1..Len(table) :
                 Selected(table[i], client) /\ table[i].start_status = s})

\* HAVING count(*) < 2
HavingBelowThree(n) == n < 3
Having(n) == n < 2

DeadGroups(table, client) ==
  {s \in StartValues :
     GroupCount(table, client, s) > 0 /\ Having(GroupCount(table, client, s))}

\* SELECT 'DEAD', now(), now(), start_status, 0, $1
DeadRow(s, client) ==
  [execution_status |-> "DEAD", start_status |-> s, client_name |-> client]

Orderings(S) == {q \in [1..Cardinality(S) -> S] : \A x \in S : \E i \in DOMAIN q : q[i] = x}

\* the tables the INSERT ... SELECT can leave: one DEAD row per selected group,
\* in any order
FixSchedulerCrash(table, client) ==
  {table \o [i \in DOMAIN q |-> DeadRow(q[i], client)] :
     q \in Orderings(DeadGroups(table, client))}

\* FixSchedulerCrash of the daemon named client; a failed statement inserts nothing
RunFixSchedulerCrash(client) ==
  /\ fixRuns < MaxFixRuns
  /\ \/ /\ run_status' \in FixSchedulerCrash(run_status, client)
        /\ fixBefore' = run_status
        /\ fixClient' = client
        /\ fixRuns' = IF fixClient = client THEN fixRuns + 1 ELSE 1
     \/ UNCHANGED fixVars
  /\ UNCHANGED notFix

\* InsertChainRunStatus: a STARTED row without start_status
RunInsertChainRunStatus(client) ==
  /\ Len(run_status) < MaxRows
  /\ run_status' = Append(run_status,
       [execution_status |-> "STARTED", start_status |-> NullStart, client_name |-> client])
  /\ fixRuns' = 0
  /\ fixClient' = NoClient
  /\ fixBefore' = <<>>
  /\ UNCHANGED notFix

\* UpdateChainRunStatus: a row of the given status that names its opener
RunUpdateChainRunStatus(client, runStatusID, status) ==
  /\ Len(run_status) < MaxRows
  /\ run_status' = Append(run_status,
       [execution_status |-> status, start_status |-> runStatusID, client_name |-> client])
  /\ fixRuns' = 0
  /\ fixClient' = NoClient
  /\ fixBefore' = <<>>
  /\ UNCHANGED notFix

FixIdle ==
  /\ run_status = <<>>
  /\ fixBefore = <<>>
  /\ fixClient = NoClient
  /\ fixRuns = 0

FixInit ==
  /\ run_status \in SeqsUpTo(RunStatusRow, MaxRows)
  /\ fixBefore = <<>>
  /\ fixClient = NoClient
  /\ fixRuns = 0

FixNext ==
  \/ \E client \in Clients : RunFixSchedulerCrash(client)
  \/ \E client \in Clients : RunInsertChainRunStatus(client)
  \/ \E client \in Clients, id \in 1..NumStart, status \in ExecutionStatus :
       RunUpdateChainRunStatus(client, id, status)

(* ----------------------------------------------------- TryLockClientName *)
NumDaemons == 2
MaxWait == 4

Daemons == 1..NumDaemons
NoDaemon == 0
\* client names as byte strings
LockNames == {<<88>>, <<89>>}

AppID == 541001966

\* hash/adler32.Checksum
RECURSIVE AdlerA(_, _)
AdlerA(bytes, n) == IF n = 0 THEN 1 ELSE (AdlerA(bytes, n - 1) + bytes[n]) % 65521
RECURSIVE AdlerB(_, _)
AdlerB(bytes, n) == IF n = 0 THEN 0 ELSE (AdlerB(bytes, n - 1) + AdlerA(bytes, n)) % 65521
Adler32(bytes) == AdlerB(bytes, Len(bytes)) * 65536 + AdlerA(bytes, Len(bytes))

\* the two keys of pg_try_advisory_lock($1, $2)
LockKeyOfDaemon(d) == <<AppID, d>>
LockKey(d) == <<AppID, Adler32(ClientName[d])>>

\* pg_try_advisory_lock: granted unless another session holds the key
PgTryAdvisoryLock(key, d) ==
  \A l \in advisoryLock : l.key = key => l.session = d

\* err := ConfigDb.GetContext(ctx, &res, "SELECT pg_try_advisory_lock($1, $2)", ...)
TryLockAttempt(d) ==
  /\ lpc[d] = "try"
  /\ \E ok \in DbOutcomes(lctxDone[d]) :
       LET granted == ok /\ PgTryAdvisoryLock(LockKey(d), d)
       IN /\ res' = [res EXCEPT ![d] = IF ok THEN granted ELSE @]
          /\ advisoryLock' = IF granted
                             THEN advisoryLock \cup {[key |-> LockKey(d), session |-> d]}
                             ELSE advisoryLock
  /\ lpc' = [lpc EXCEPT ![d] = "wait"]
  /\ UNCHANGED <<ClientName, WaitTime, maxWaitTime, wt, lctxDone, returned>>
  /\ UNCHANGED notLock

\* if wt < maxWaitTime { wt = wt * 2 }
NextWait(w, maxWait) == IF w < maxWait THEN w * 2 ELSE w

\* select, case <-time.After(wt): back off, then the loop test for !res
TryLockTimer(d) ==
  /\ lpc[d] = "wait"
  /\ wt' = [wt EXCEPT ![d] = NextWait(@, maxWaitTime)]
  /\ IF res[d]
     THEN /\ lpc' = [lpc EXCEPT ![d] = "returned"]
          /\ returned' = [returned EXCEPT ![d] = "true"]
     ELSE /\ lpc' = [lpc EXCEPT ![d] = "try"]
          /\ returned' = returned
  /\ UNCHANGED <<ClientName, WaitTime, maxWaitTime, advisoryLock, res, lctxDone>>
  /\ UNCHANGED notLock

\* select, case <-ctx.Done(): return false
TryLockCtxDone(d) ==
  /\ lpc[d] = "wait"
  /\ lctxDone[d]
  /\ lpc' = [lpc EXCEPT ![d] = "returned"]
  /\ returned' = [returned EXCEPT ![d] = "false"]
  /\ UNCHANGED <<ClientName, WaitTime, maxWaitTime, advisoryLock, res, wt, lctxDone>>
  /\ UNCHANGED notLock

\* the daemon's context is cancelled
CancelDaemon(d) ==
  /\ lpc[d] # "gone"
  /\ ~lctxDone[d]
  /\ lctxDone' = [lctxDone EXCEPT ![d] = TRUE]
  /\ UNCHANGED <<ClientName, WaitTime, maxWaitTime, advisoryLock, lpc, res, wt, returned>>
  /\ UNCHANGED notLock

\* the daemon's database session ends: its advisory locks are released
SessionEnd(d) ==
  /\ lpc[d] # "gone"
  /\ advisoryLock' = {l \in advisoryLock : l.session # d}
  /\ lpc' = [lpc EXCEPT ![d] = "gone"]
  /\ res' = [res EXCEPT ![d] = FALSE]
  /\ returned' = [returned EXCEPT ![d] = "none"]
  /\ UNCHANGED <<ClientName, WaitTime, maxWaitTime, wt, lctxDone>>
  /\ UNCHANGED notLock

\* the daemon is started again under the same name
DaemonStart(d) ==
  /\ lpc[d] = "gone"
  /\ lpc' = [lpc EXCEPT ![d] = "try"]
  /\ wt' = [wt EXCEPT ![d] = WaitTime]
  /\ lctxDone' = [lctxDone EXCEPT ![d] = FALSE]
  /\ UNCHANGED <<ClientName, WaitTime, maxWaitTime, advisoryLock, res, returned>>
  /\ UNCHANGED notLock

LockIdle ==
  /\ ClientName = [d \in Daemons |-> <<88>>]
  /\ WaitTime = 1
  /\ maxWaitTime = 1
  /\ advisoryLock = {}
  /\ lpc = [d \in Daemons |-> "gone"]
  /\ res = [d \in Daemons |-> FALSE]
  /\ wt = [d \in Daemons |-> 1]
  /\ lctxDone = [d \in Daemons |-> FALSE]
  /\ returned = [d \in Daemons |-> "none"]

LockInit ==
  /\ ClientName \in [Daemons -> LockNames]
  /\ WaitTime \in 1..MaxWait
  /\ maxWaitTime \in WaitTime..MaxWait
  /\ advisoryLock = {}
  /\ lpc = [d \in Daemons |-> "try"]
  /\ res = [d \in Daemons |-> FALSE]
  /\ wt = [d \in Daemons |-> WaitTime]
  /\ lctxDone = [d \in Daemons |-> FALSE]
  /\ returned = [d \in Daemons |-> "none"]

LockNext ==
  \E d \in Daemons :
    \/ TryLockAttempt(d)
    \/ TryLockTimer(d)
    \/ TryLockCtxDone(d)
    \/ CancelDaemon(d)
    \/ SessionEnd(d)
    \/ DaemonStart(d)

(* ------------------------------------- ExecuteProgramCommandWithOptions *)
MaxParams == 2

\* strings are sequences of characters
IsSpace(ch) == ch \in {" ", "\n", "\t"}
RECURSIVE TrimLeft(_)
TrimLeft(str) ==
  IF str # <<>> /\ IsSpace(Head(str)) THEN TrimLeft(Tail(str)) ELSE str
RECURSIVE TrimRight(_)
TrimRight(str) ==
  IF str # <<>> /\ IsSpace(str[Len(str)])
  THEN TrimRight(SubSeq(str, 1, Len(str) - 1)) ELSE str
\* strings.TrimSpace
TrimSpace(str) == TrimRight(TrimLeft(str))

Commands == {<<>>, <<" ">>, <<"c">>, <<" ", "c", " ">>}
Outputs == {<<>>, <<"o">>, <<" ", "o", "\n">>}
\* parameter values: empty, two JSON arrays of strings, an array of numbers
\* and a text that is no JSON
ParamEntries == {"", "[\"a\",\"b\"]", "[\"c\"]", "[1]", "{"}

\* json.Unmarshal([]byte(val), &params) for params []string
JsonUnmarshal(val) ==
  CASE val = "[\"a\",\"b\"]" -> [ok |-> TRUE, params |-> <<"a", "b">>]
    [] val = "[\"c\"]" -> [ok |-> TRUE, params |-> <<"c">>]
    [] OTHER -> [ok |-> FALSE, params |-> <<>>]

\* what Cmd.CombinedOutputWithOptions can return: the process ran and exited
\* with a code (err is an *exec.ExitError unless the code is 0), or it could
\* not be run (any other error)
ProgramExitCodes == {0, 1, 3}
ProgramResults ==
  [ran : {TRUE}, exit : ProgramExitCodes, out : Outputs]
    \cup [ran : {FALSE}, exit : {-1}, out : {<<>>}]

\* command == "" after TrimSpace: return -1, "", error
ProgStart ==
  /\ ppc = "start"
  /\ command' = TrimSpace(o.Command)
  /\ IF TrimSpace(o.Command) = <<>>
     THEN /\ code' = -1
          /\ stdout' = <<>>
          /\ stderr' = TRUE
          /\ ppc' = "done"
          /\ UNCHANGED <<paramValues, pi>>
     ELSE /\ paramValues' = IF Len(o.ParamValue) = 0 THEN <<"">> ELSE o.ParamValue
          /\ pi' = 1
          /\ ppc' = "loop"
          /\ UNCHANGED <<code, stdout, stderr>>
  /\ UNCHANGED <<o, invoked>>
  /\ UNCHANGED notProg

GoesOnAlways(result) == TRUE
GoesOn(result) == result.ran /\ result.exit = 0

\* one iteration of for _, val := range paramValues
ProgIterate ==
  /\ ppc = "loop"
  /\ LET val == paramValues[pi]
         dec == IF val # "" THEN JsonUnmarshal(val) ELSE [ok |-> TRUE, params |-> <<>>]
     IN IF ~dec.ok
        THEN /\ code' = -1
             /\ stdout' = <<>>
             /\ stderr' = TRUE
             /\ ppc' = "done"
             /\ UNCHANGED <<invoked, pi>>
        ELSE \E result \in ProgramResults :
               /\ invoked' = Append(invoked,
                    [command |-> command, args |-> dec.params, result |-> result])
               /\ stdout' = TrimSpace(result.out)
               /\ IF GoesOn(result)
                  THEN /\ pi' = pi + 1
                       /\ IF pi = Len(paramValues)
                          THEN /\ code' = 0
                               /\ stderr' = FALSE
                               /\ ppc' = "done"
                          ELSE UNCHANGED <<code, stderr, ppc>>
                  ELSE /\ code' = IF result.ran THEN result.exit ELSE -1
                       /\ stderr' = TRUE
                       /\ ppc' = "done"
                       /\ pi' = pi
  /\ UNCHANGED <<o, command, paramValues>>
  /\ UNCHANGED notProg

ProgIdle ==
  /\ o = [Command |-> <<>>, ParamValue |-> <<>>]
  /\ command = <<>>
  /\ paramValues = <<>>
  /\ ppc = "idle"
  /\ pi = 0
  /\ invoked = <<>>
  /\ code = 0
  /\ stdout = <<>>
  /\ stderr = FALSE

ProgInit ==
  /\ o \in [Command : Commands, ParamValue : SeqsUpTo(ParamEntries, MaxParams)]
  /\ command = <<>>
  /\ paramValues = <<>>
  /\ ppc = "start"
  /\ pi = 0
  /\ invoked = <<>>
  /\ code = 0
  /\ stdout = <<>>
  /\ stderr = FALSE

ProgNext == ProgStart \/ ProgIterate

(* -------------------------------------------- retrieveAsyncChainsAndRun *)
MaxSignals == 4

SignalCommands == {"START", "STOP"}
ChainSignal == [ConfigID : ChainIDs, Command : SignalCommands]
\* the signal of a terminated notification stream
NoSignal == [ConfigID |-> NoChain, Command |-> ""]

\* chainSignal := WaitForChainSignal(ctx); if chainSignal.ConfigID == 0 { return }
\* The stream delivers one of the given signals, or terminates when the context
\* is cancelled or the connection lost.
AsyncWaitForChainSignal(signals) ==
  /\ apc = "wait"
  /\ \/ /\ \E sig \in signals :
             /\ sig.Command = "START" => Len(sendLog) < MaxSignals
             /\ chainSignal' = sig
        /\ apc' = "signal"
     \/ /\ rootDone \/ ~connected
        /\ chainSignal' = NoSignal
        /\ apc' = "returned"
  /\ UNCHANGED <<sendLog, schedVars, notIntake>>

\* case "START": SelectChain, then SendChain unless the query failed
AsyncSignalStart ==
  /\ apc = "signal"
  /\ chainSignal.Command = "START"
  /\ \E ok \in DbOutcomes(rootDone \/ ~connected) :
       IF ok
       THEN /\ chainsChan' = ChanSend(chainsChan, chainSignal.ConfigID)
            /\ sendLog' = Append(sendLog,
                 IF ChanSend(chainsChan, chainSignal.ConfigID) = chainsChan
                 THEN "dropped" ELSE "sent")
       ELSE UNCHANGED <<chainsChan, sendLog>>
  /\ apc' = "wait"
  /\ chainSignal' = NoSignal
  /\ UNCHANGED notIntake
  /\ UNCHANGED <<chains, task_chain, NoProgramTasks, sent, rootDone, exclusiveMutex,
                 activeChains, running, pc, chain, ctxDone, idx, dbCalls, elems>>

\* case "STOP": the cancel handle of the registry entry, if any, is invoked
AsyncSignalStop ==
  /\ apc = "signal"
  /\ chainSignal.Command = "STOP"
  /\ ctxDone' = [w \in Workers |->
                   ctxDone[w] \/ w \in CancelTargets(chainSignal.ConfigID)]
  /\ apc' = "wait"
  /\ chainSignal' = NoSignal
  /\ UNCHANGED <<sendLog, notIntake>>
  /\ UNCHANGED <<chains, task_chain, NoProgramTasks, chainsChan, sent, rootDone,
                 exclusiveMutex, activeChains, running, pc, chain, idx, dbCalls,
                 elems>>

retrieveAsyncChainsAndRun ==
  \/ AsyncWaitForChainSignal(ChainSignal)
  \/ AsyncSignalStart
  \/ AsyncSignalStop

\* the async intake waits for its first signal
IntakeInit ==
  /\ apc = "wait"
  /\ chainSignal = NoSignal
  /\ sendLog = <<>>

(* ------------------------------- the registry, statement by statement *)
\* sch.activeChains is a Go map: a write is not atomic, and a lookup or an
\* iteration that overlaps a write is a data race. Here every access has a
\* first and a last step, and the registry changes at the last step.
RegIdle ==
  /\ activeChainMutex = NoWorker
  /\ tpc = "off"

\* chainContext, cancel := context.WithCancel(chainContext);
\* addActiveChain: sch.activeChainMutex.Lock()
AddActiveChainLock(w) ==
  /\ pc[w] = "register"
  /\ activeChainMutex = NoWorker
  /\ activeChainMutex' = w
  /\ ctxDone' = [ctxDone EXCEPT ![w] = FALSE]
  /\ pc' = [pc EXCEPT ![w] = "registering"]
  /\ UNCHANGED <<tpc, intakeVars, notReg>>
  /\ UNCHANGED <<chains, task_chain, NoProgramTasks, chainsChan, sent, rootDone,
                 exclusiveMutex, activeChains, running, chain, idx, dbCalls, elems>>

\* addActiveChain: sch.activeChains[id] = cancel; sch.activeChainMutex.Unlock()
AddActiveChainWrite(w) ==
  /\ pc[w] = "registering"
  /\ activeChains' = addActiveChain(chain[w], w)
  /\ activeChainMutex' = NoWorker
  /\ pc' = [pc EXCEPT ![w] = "startTx"]
  /\ UNCHANGED <<tpc, intakeVars, notReg>>
  /\ UNCHANGED <<chains, task_chain, NoProgramTasks, chainsChan, sent, rootDone,
                 exclusiveMutex, running, chain, ctxDone, idx, dbCalls, elems>>

\* deleteActiveChain: sch.activeChainMutex.Lock()
DeleteActiveChainLock(w) ==
  /\ pc[w] = "delete"
  /\ activeChainMutex = NoWorker
  /\ activeChainMutex' = w
  /\ pc' = [pc EXCEPT ![w] = "deleting"]
  /\ UNCHANGED <<tpc, intakeVars, notReg>>
  /\ UNCHANGED <<chains, task_chain, NoProgramTasks, chainsChan, sent, rootDone,
                 exclusiveMutex, activeChains, running, chain, ctxDone, idx, dbCalls,
                 elems>>

\* deleteActiveChain: delete(sch.activeChains, id); Unlock(); then cancel()
DeleteActiveChainWrite(w) ==
  /\ pc[w] = "deleting"
  /\ activeChains' = deleteActiveChain(chain[w])
  /\ activeChainMutex' = NoWorker
  /\ ctxDone' = [ctxDone EXCEPT ![w] = TRUE]
  /\ pc' = [pc EXCEPT ![w] = "unlock"]
  /\ UNCHANGED <<tpc, intakeVars, notReg>>
  /\ UNCHANGED <<chains, task_chain, NoProgramTasks, chainsChan, sent, rootDone,
                 exclusiveMutex, running, chain, idx, dbCalls, elems>>

\* case "STOP": the lookup sch.activeChains[chainSignal.ConfigID] begins
AsyncStopLookup ==
  /\ apc = "signal"
  /\ chainSignal.Command = "STOP"
  /\ apc' = "lookup"
  /\ UNCHANGED <<chainSignal, sendLog, regVars, schedVars, notReg>>

\* case "STOP": the lookup ends, and cancel() is called if it found an entry
AsyncStopCancel ==
  /\ apc = "lookup"
  /\ ctxDone' = [w \in Workers |->
                   ctxDone[w] \/ w \in CancelTargets(chainSignal.ConfigID)]
  /\ apc' = "wait"
  /\ chainSignal' = NoSignal
  /\ UNCHANGED <<sendLog, regVars, notReg>>
  /\ UNCHANGED <<chains, task_chain, NoProgramTasks, chainsChan, sent, rootDone,
                 exclusiveMutex, activeChains, running, pc, chain, idx, dbCalls,
                 elems>>

\* terminateChains is called on shutdown: for id, cancel := range
\* sch.activeChains begins
TerminateChainsRange ==
  /\ tpc = "off"
  /\ rootDone
  /\ tpc' = "ranging"
  /\ UNCHANGED <<activeChainMutex, intakeVars, schedVars, notReg>>

\* the range ends: cancel() was called for every entry
TerminateChainsCancel ==
  /\ tpc = "ranging"
  /\ ctxDone' = [w \in Workers |->
                   ctxDone[w] \/ \E c \in ChainIDs : activeChains[c] = w]
  /\ tpc' = "sleep"
  /\ UNCHANGED <<activeChainMutex, intakeVars, notReg>>
  /\ UNCHANGED <<chains, task_chain, NoProgramTasks, chainsChan, sent, rootDone,
                 exclusiveMutex, activeChains, running, pc, chain, idx, dbCalls,
                 elems>>

\* time.Sleep(1 * time.Second), then len(sch.activeChains) begins
TerminateChainsSleep ==
  /\ tpc = "sleep"
  /\ tpc' = "measuring"
  /\ UNCHANGED <<activeChainMutex, intakeVars, schedVars, notReg>>

\* if len(sch.activeChains) == 0 { return }, otherwise the next round
TerminateChainsLen ==
  /\ tpc = "measuring"
  /\ tpc' = IF \A c \in ChainIDs : activeChains[c] = NoWorker THEN "returned"
            ELSE "sleep"
  /\ UNCHANGED <<activeChainMutex, intakeVars, schedVars, notReg>>

terminateChains ==
  \/ TerminateChainsRange
  \/ TerminateChainsCancel
  \/ TerminateChainsSleep
  \/ TerminateChainsLen

\* the workers inside a write of the registry, and the lookup or the
\* iteration being inside a read of it
Writing == {w \in Workers : pc[w] \in {"registering", "deleting"}}
ReadingMap == apc = "lookup" \/ tpc = "ranging"

\* a read of the registry is under way in a process that took no mutex:
\* neither retrieveAsyncChainsAndRun nor terminateChains ever locks it
ReadingUnlocked == ReadingMap \/ tpc = "measuring"

\* a lookup or an iteration that overlaps a write: the runtime may stop the
\* process with "concurrent map read and map write" (or "concurrent map
\* iteration and map write"); otherwise both accesses go on
FatalMapRace ==
  /\ Writing # {}
  /\ ReadingMap
  /\ pc' = [w \in Workers |-> "crashed"]
  /\ apc' = "crashed"
  /\ tpc' = "crashed"
  /\ UNCHANGED <<activeChainMutex, chainSignal, sendLog, notReg>>
  /\ UNCHANGED <<chains, task_chain, NoProgramTasks, chainsChan, sent, rootDone,
                 exclusiveMutex, activeChains, running, chain, ctxDone, idx,
                 dbCalls, elems>>

(* ------------------------------------------------- main and sch.Run *)
MaxRuns == 3

RunStatus == {"RunningStatus", "ShutdownStatus", "ConnectionDroppedStatus"}
Min(a, b) == IF a < b THEN a ELSE b

\* sch.Run(ctx) is entered: the intakes and the workers are spawned
RunStart ==
  /\ bpc = "start"
  /\ bpc' = "run"
  /\ runResult' = "RunningStatus"
  /\ runs' = Min(runs + 1, MaxRuns)
  /\ apc' = "wait"
  /\ chainSignal' = NoSignal
  /\ UNCHANGED <<connected, fixes, sendLog, schedVars, notBoot>>

\* sch.Run waits; the root context is cancelled: ShutdownStatus (no chain is
\* in flight, so that TerminateChains finds the registry empty)
RunShutdown ==
  /\ bpc = "run"
  /\ rootDone
  /\ \A c \in ChainIDs : activeChains[c] = NoWorker
  /\ runResult' = "ShutdownStatus"
  /\ bpc' = "test"
  /\ UNCHANGED <<connected, runs, fixes, intakeVars, schedVars, notBoot>>

\* sch.Run waits; the async intake has returned: ConnectionDroppedStatus
RunConnectionDropped ==
  /\ bpc = "run"
  /\ apc = "returned"
  /\ runResult' = "ConnectionDroppedStatus"
  /\ bpc' = "test"
  /\ UNCHANGED <<connected, runs, fixes, intakeVars, schedVars, notBoot>>

\* for sch.Run(ctx) == scheduler.ConnectionDropppedStatus { ... }
LoopContinuesAlways(result) == TRUE
LoopContinues(result) == result = "ConnectionDroppedStatus"

MainLoopTest ==
  /\ bpc = "test"
  /\ bpc' = IF LoopContinues(runResult) THEN "reconnect" ELSE "exited"
  /\ UNCHANGED <<runResult, connected, runs, fixes, intakeVars, schedVars, notBoot>>

\* pge.ReconnectAndFixLeftovers(ctx): reconnects, which can only fail when the
\* context is cancelled, and repeats FixSchedulerCrash
ReconnectAndFixLeftovers ==
  /\ bpc = "reconnect"
  /\ \E ok \in (IF rootDone THEN BOOLEAN ELSE {TRUE}) :
       connected' = (connected \/ ok)
  /\ fixes' = Min(fixes + 1, MaxRuns)
  /\ bpc' = "start"
  /\ UNCHANGED <<runResult, runs, intakeVars, schedVars, notBoot>>

\* the connection to the database is lost
DropConnection ==
  /\ connected
  /\ connected' = FALSE
  /\ UNCHANGED <<bpc, runResult, runs, fixes, intakeVars, schedVars, notBoot>>

\* main is about to call sch.Run for the first time
BootInit ==
  /\ bpc = "start"
  /\ runResult = "RunningStatus"
  /\ connected = TRUE
  /\ runs = 0
  /\ fixes = 0
  /\ apc = "returned"
  /\ chainSignal = NoSignal
  /\ sendLog = <<>>

\* the daemon is inside its first sch.Run on a live connection
BootIdle ==
  /\ bpc = "run"
  /\ runResult = "RunningStatus"
  /\ connected = TRUE
  /\ runs = 1
  /\ fixes = 0

(* ------------------------------------------------------- specifications *)
\* chainWorker but for its two calls on the registry
chainWorkerSteps(w) ==
  \/ WorkerCheckCtx(w)
  \/ WorkerReceive(w)
  \/ WorkerCtxDone(w)
  \/ WorkerAdmit(w)
  \/ WorkerLock(w)
  \/ WorkerLockWait(w)
  \/ ExecStartTransaction(w)
  \/ ExecGetChainElements(w)
  \/ ElemGetParamValues(w)
  \/ ElemRun(w)
  \/ ExecCheck(w)
  \/ ExecCommit(w)
  \/ ChainTimeoutFires(w)
  \/ WorkerUnlock(w)

chainWorker(w) ==
  \/ chainWorkerSteps(w)
  \/ WorkerAddActive(w)
  \/ WorkerDeleteActive(w)

SchedInit(chainTables, taskTables, flags) ==
  /\ chains \in chainTables
  /\ task_chain \in taskTables
  /\ NoProgramTasks \in flags
  /\ chainsChan = <<>>
  /\ sent = 0
  /\ rootDone = FALSE
  /\ exclusiveMutex = [w |-> NoWorker, r |-> {}]
  /\ activeChains = [c \in ChainIDs |-> NoWorker]
  /\ running = [c \in ChainIDs |-> 0]
  /\ pc = [w \in Workers |-> "select"]
  /\ chain = [w \in Workers |-> NoChain]
  /\ ctxDone = [w \in Workers |-> FALSE]
  /\ idx = [w \in Workers |-> 0]
  /\ dbCalls = [w \in Workers |-> <<>>]
  /\ elems = [w \in Workers |-> <<>>]

\* the chain rows of the concurrent runs: exclusive self-destructing chains
\* without a timeout and shared ones with a timeout, of every instance cap
ChainRows ==
  {r \in Chain : /\ r.SelfDestruct = r.ExclusiveExecution
                 /\ r.Timeout = (IF r.ExclusiveExecution THEN 0 ELSE 1)}
\* and their tasks: one SQL task that must succeed, or a program task whose
\* failure is ignored
TaskTable == [c \in ChainIDs |-> IF c % 2 = 1
     THEN <<[Kind |-> "SQL", IgnoreError |-> FALSE]>>
     ELSE <<[Kind |-> "PROGRAM", IgnoreError |-> TRUE]>>]

SchedIdle ==
  SchedInit({[c \in ChainIDs |-> CHOOSE r \in ChainRows : TRUE]}, {TaskTable}, {FALSE})

\* N workers on a database of ChainRows chains
Init ==
  /\ SchedInit([ChainIDs -> ChainRows], {TaskTable}, {FALSE})
  /\ FixIdle /\ LockIdle /\ ProgIdle /\ IntakeInit /\ BootIdle /\ RegIdle

Next ==
  \/ \E c \in ChainIDs : SendChain(c)
  \/ \E c \in ChainIDs : AsyncStop(c)
  \/ CancelRoot
  \/ \E w \in Workers : chainWorker(w)

Spec == Init /\ [][Next]_vars

\* one worker running one chain: every chain row and every task list of up to
\* MaxTasks tasks
InitOneWorker ==
  /\ SchedInit({[c \in ChainIDs |-> r] : r \in Chain},
               {[c \in ChainIDs |-> t] : t \in SeqsUpTo(ChainTask, MaxTasks)},
               BOOLEAN)
  /\ FixIdle /\ LockIdle /\ ProgIdle /\ IntakeInit /\ BootIdle /\ RegIdle

NextOneWorker ==
  \/ SendChain(1)
  \/ AsyncStop(1)
  \/ CancelRoot
  \/ chainWorker(1)

SpecOneWorker == InitOneWorker /\ [][NextOneWorker]_vars

\* FixSchedulerCrash on every run_status table of up to MaxRows rows
InitFix == FixInit /\ SchedIdle /\ LockIdle /\ ProgIdle /\ IntakeInit /\ BootIdle /\ RegIdle
SpecFix == InitFix /\ [][FixNext]_vars

\* NumDaemons daemons taking the client-name lock of one database
InitLock == LockInit /\ SchedIdle /\ FixIdle /\ ProgIdle /\ IntakeInit /\ BootIdle /\ RegIdle
SpecLock == InitLock /\ [][LockNext]_vars

\* ExecuteProgramCommandWithOptions on every command and parameter list
InitProg == ProgInit /\ SchedIdle /\ FixIdle /\ LockIdle /\ IntakeInit /\ BootIdle /\ RegIdle
SpecProg == InitProg /\ [][ProgNext]_vars

\* an exclusive chain without a timeout and a shared chain with one
MixedChains ==
  [c \in ChainIDs |->
     [ExclusiveExecution |-> c % 2 = 1, MaxInstances |-> (IF c % 2 = 1 THEN 1 ELSE MaxInst),
      SelfDestruct |-> c % 2 = 1, Timeout |-> (IF c % 2 = 1 THEN 0 ELSE 1)]]

InitMixed ==
  /\ SchedInit({MixedChains}, {TaskTable}, {FALSE})
  /\ FixIdle /\ LockIdle /\ ProgIdle /\ IntakeInit /\ BootIdle /\ RegIdle

StopSignals == {sig \in ChainSignal : sig.Command = "STOP"}
StartSignals == {sig \in ChainSignal : sig.Command = "START"}

\* N workers fed by the scheduled intake, and the async intake receiving STOP
NextStop ==
  \/ \E c \in ChainIDs : SendChain(c)
  \/ CancelRoot
  \/ AsyncWaitForChainSignal(StopSignals)
  \/ AsyncSignalStop
  \/ \E w \in Workers : chainWorker(w)

SpecStop == InitMixed /\ [][NextStop]_vars

\* N workers fed by the async intake receiving START
NextChannel ==
  \/ CancelRoot
  \/ AsyncWaitForChainSignal(StartSignals)
  \/ AsyncSignalStart
  \/ \E w \in Workers : chainWorker(w)

SpecChannel == InitMixed /\ [][NextChannel]_vars

\* main's loop around sch.Run, with the async intake and no chain to run
InitBoot ==
  /\ SchedInit({MixedChains}, {TaskTable}, {FALSE})
  /\ FixIdle /\ LockIdle /\ ProgIdle /\ BootInit /\ RegIdle

NextBoot ==
  \/ CancelRoot
  \/ DropConnection
  \/ RunStart
  \/ RunShutdown
  \/ RunConnectionDropped
  \/ MainLoopTest
  \/ ReconnectAndFixLeftovers
  \/ retrieveAsyncChainsAndRun

SpecBoot == InitBoot /\ [][NextBoot]_vars

\* main and sch.Run take their steps, and a select that is ready again and
\* again on the cancelled context takes that case in the end
SpecBootFair ==
  /\ SpecBoot
  /\ WF_vars(RunStart)
  /\ WF_vars(RunConnectionDropped)
  /\ WF_vars(MainLoopTest)
  /\ WF_vars(ReconnectAndFixLeftovers)
  /\ SF_vars(RunShutdown)

\* the workers, the async intake receiving STOP and terminateChains, with
\* the accesses to the registry taken statement by statement
NextRegistry ==
  \/ \E c \in ChainIDs : SendChain(c)
  \/ CancelRoot
  \/ AsyncWaitForChainSignal(StopSignals)
  \/ AsyncStopLookup
  \/ AsyncStopCancel
  \/ terminateChains
  \/ FatalMapRace
  \/ \E w \in Workers :
       \/ chainWorkerSteps(w)
       \/ AddActiveChainLock(w)
       \/ AddActiveChainWrite(w)
       \/ DeleteActiveChainLock(w)
       \/ DeleteActiveChainWrite(w)

SpecRegistry == InitMixed /\ [][NextRegistry]_vars

(* --------------------------------------------------------------- claims *)
\* between sch.Lock and sch.Unlock
BetweenLockAndUnlock == {"register"} \cup InExecuteChain \cup {"delete", "unlock"}
\* executeChain has returned to chainWorker
Returned == {"delete", "unlock"}
IsExclusive(w) == chain[w] # NoChain /\ chains[chain[w]].ExclusiveExecution

\* C1: while a chain with ExclusiveExecution=true is between Lock and Unlock,
\* no other worker is inside executeChain.
C1_ExclusiveRunsAlone ==
  \A w1, w2 \in Workers :
    (w1 # w2 /\ pc[w1] \in BetweenLockAndUnlock /\ IsExclusive(w1))
      => pc[w2] \notin InExecuteChain

\* an exclusive chain is executing while another worker, which received a
\* shared chain, waits for the latch
C1_Witness ==
  \E w1, w2 \in Workers :
    /\ w1 # w2
    /\ pc[w1] \in InExecuteChain /\ IsExclusive(w1)
    /\ pc[w2] = "lock" /\ ~IsExclusive(w2)

\* admitted executions whose run status is still open
Admitted == {"lock", "lockWait"} \cup BetweenLockAndUnlock
OpenExecutions(c) ==
  {w \in Workers : /\ chain[w] = c
                   /\ pc[w] \in Admitted
                   /\ "RemoveChainRunStatus" \notin Ops(w)}

Registered == InExecuteChain \cup {"delete"}
Executing(c) == {w \in Workers : chain[w] = c /\ pc[w] \in Registered}

\* C3: a chain id is in the registry iff exactly one worker is executing it,
\* and the registered handle is that worker's.
C3_RegistryExact ==
  \A c \in ChainIDs :
    /\ (activeChains[c] # NoWorker) <=> (Cardinality(Executing(c)) = 1)
    /\ activeChains[c] # NoWorker => activeChains[c] \in Executing(c)

\* C4 as claimed: RemoveChainRunStatus was called exactly once on every return
\* path of executeChain.
C4_ClosedOnEveryReturn ==
  \A w \in Workers : pc[w] \in Returned => Count(w, "RemoveChainRunStatus") = 1

\* C4 amended: when executeChain has returned, RemoveChainRunStatus was called
\* exactly once if the transaction was started and the task list fetched, and
\* not at all if StartTransaction or GetChainElements failed.
C4_ClosedOnceTasksFetched ==
  \A w \in Workers :
    pc[w] \in Returned =>
      Count(w, "RemoveChainRunStatus") =
        (IF "GetChainElements" \in Ops(w) THEN 1 ELSE 0)

\* a chain that failed on a task has returned
C4_Witness ==
  \E w \in Workers :
    /\ pc[w] \in Returned
    /\ "RollbackTransaction" \in Ops(w)
    /\ "GetChainElements" \in Ops(w)
    /\ Count(w, "RemoveChainRunStatus") = 1

\* rows of the table, counted by hand
RowsOf(table, client, s) ==
  Cardinality({i \in 1..Len(table) :
                 table[i].client_name = client /\ table[i].start_status = s})
Added == SubSeq(run_status, Len(fixBefore) + 1, Len(run_status))

\* C5: FixSchedulerCrash for client X adds exactly one DEAD row of X for every
\* start_status group of X that had one row, and nothing else: the rows found
\* are kept, groups of two or more rows and other clients get no row.
C5_OneDeadRowPerLoneGroup ==
  fixRuns > 0 =>
    /\ Len(run_status) >= Len(fixBefore)
    /\ SubSeq(run_status, 1, Len(fixBefore)) = fixBefore
    /\ \A i \in 1..Len(Added) :
         Added[i].execution_status = "DEAD" /\ Added[i].client_name = fixClient
    /\ \A s \in StartValues :
         RowsOf(Added, fixClient, s) =
           (IF RowsOf(fixBefore, fixClient, s) = 1 THEN 1 ELSE 0)

\* a run that closed a lone opener of its client and left alone a lone row of
\* the other client
C5_Witness ==
  /\ fixRuns = 1
  /\ Len(Added) = 1
  /\ \E i \in 1..Len(fixBefore) :
       /\ fixBefore[i].execution_status = "STARTED"
       /\ fixBefore[i].client_name = fixClient
       /\ fixBefore[i].start_status = Added[1].start_status
  /\ \E i \in 1..Len(fixBefore), s \in StartValues :
       /\ fixBefore[i].client_name # fixClient
       /\ fixBefore[i].start_status = s
       /\ RowsOf(fixBefore, fixBefore[i].client_name, s) = 1

\* C6: a second FixSchedulerCrash for the same client, with no write in
\* between, inserts no row.
C6_Idempotent == fixRuns >= 2 => run_status = fixBefore

\* the second of two runs, the first of which had inserted a DEAD row
C6_Witness ==
  /\ fixRuns = 2
  /\ run_status # <<>>
  /\ run_status[Len(run_status)].execution_status = "DEAD"
  /\ run_status[Len(run_status)].client_name = fixClient
  /\ \E i \in 1..(Len(run_status) - 1) :
       /\ run_status[i].execution_status = "STARTED"
       /\ run_status[i].client_name = fixClient
       /\ run_status[i].start_status = run_status[Len(run_status)].start_status
       /\ RowsOf(run_status, fixClient, run_status[i].start_status) = 2

Holds(d) == lpc[d] # "gone" /\ res[d]
SameName(d1, d2) == d1 # d2 /\ ClientName[d1] = ClientName[d2]

\* C7: of two daemons with the same ClientName at most one holds the lock; a
\* daemon is granted the lock only when no live daemon of its name holds it;
\* TryLockClientName returns true only to a holder and returns false only when
\* the daemon's context is cancelled.
C7_OneDaemonPerName ==
  /\ [](\A d1, d2 \in Daemons : SameName(d1, d2) => ~(Holds(d1) /\ Holds(d2)))
  /\ [](\A d \in Daemons :
          /\ returned[d] = "true" => Holds(d)
          /\ returned[d] = "false" => lctxDone[d])
  /\ [][\A d1, d2 \in Daemons :
          (SameName(d1, d2) /\ ~res[d1] /\ res'[d1]) => ~Holds(d2)]_vars

\* a daemon was admitted after retrying, and the other daemon of its name
\* keeps retrying with a longer wait
C7_Witness ==
  \E d1, d2 \in Daemons :
    /\ SameName(d1, d2)
    /\ returned[d1] = "true"
    /\ lpc[d2] = "wait" /\ ~res[d2] /\ wt[d2] > WaitTime
    /\ wt[d1] > WaitTime

\* C8: every executeChainElement call that has returned has called
\* LogChainElementExecution exactly once.
C8_LoggedOnce ==
  \A w \in Workers : \A i \in 1..Len(elems[w]) : elems[w][i].logs = 1

AllTasksPassed(w) ==
  /\ Len(elems[w]) = Len(Tasks(w))
  /\ \A i \in 1..Len(Tasks(w)) : elems[w][i].ret = 0 \/ Tasks(w)[i].IgnoreError

\* C9: when executeChain has returned after the task list was fetched, exactly
\* one of CommitTransaction and RollbackTransaction was issued, and it was
\* the commit iff every task returned 0 or had IgnoreError.
C9_CommitXorRollback ==
  \A w \in Workers :
    (pc[w] \in Returned /\ "GetChainElements" \in Ops(w)) =>
      /\ Count(w, "CommitTransaction") + Count(w, "RollbackTransaction") = 1
      /\ Count(w, "CommitTransaction") = 1 <=> AllTasksPassed(w)

\* a chain of two tasks committed although its first task failed, because the
\* failure was ignored
C9_Witness ==
  \E w \in Workers :
    /\ pc[w] \in Returned
    /\ Len(Tasks(w)) = 2
    /\ Len(elems[w]) = 2
    /\ elems[w][1].ret # 0
    /\ Count(w, "CommitTransaction") = 1
    /\ Count(w, "RollbackTransaction") = 0

Entries == IF o.ParamValue = <<>> THEN <<"">> ELSE o.ParamValue
Argv(val) == IF val = "" THEN <<>> ELSE JsonUnmarshal(val).params
Decodes(val) == val = "" \/ JsonUnmarshal(val).ok
Exited(i, zero) ==
  invoked[i].result.ran /\ ((invoked[i].result.exit = 0) <=> zero)
LastOut == invoked[Len(invoked)].result.out

\* C10 as claimed: one invocation per entry, in order, with the decoded argv;
\* the first invocation that exits non-zero ends the sequence with its exit
\* code; when all exit 0 the result is 0 with the last invocation's output.
C10_OncePerEntry ==
  (/\ ppc = "done"
   /\ TrimSpace(o.Command) # <<>>
   /\ \A i \in 1..Len(invoked) : invoked[i].result.ran) =>
    /\ \A i \in 1..Len(invoked) : invoked[i].args = Argv(Entries[i])
    /\ IF \E i \in 1..Len(invoked) : Exited(i, FALSE)
       THEN /\ Exited(Len(invoked), FALSE)
            /\ \A i \in 1..(Len(invoked) - 1) : Exited(i, TRUE)
            /\ code = invoked[Len(invoked)].result.exit
       ELSE /\ Len(invoked) = Len(Entries)
            /\ code = 0
            /\ stdout = LastOut

\* C10 amended: the entries are taken in order (an empty list as one empty
\* entry), an empty entry gives an empty argv; the sequence ends at the first
\* entry that does not decode (code -1, empty output, not invoked) or at the
\* first invocation that fails (its exit code, or -1 if it could not be run);
\* otherwise every entry is invoked and the code is 0; the output is the last
\* invocation's, trimmed of white space.
C10_PerEntryUntilFailure ==
  (ppc = "done" /\ TrimSpace(o.Command) # <<>>) =>
    LET n == Len(invoked)
    IN /\ n <= Len(Entries)
       /\ \A i \in 1..n :
            /\ Decodes(Entries[i])
            /\ invoked[i].args = Argv(Entries[i])
            /\ invoked[i].command = TrimSpace(o.Command)
       /\ \A i \in 1..(n - 1) : Exited(i, TRUE)
       /\ IF n > 0 /\ ~Exited(n, TRUE)
          THEN /\ code = (IF invoked[n].result.ran THEN invoked[n].result.exit ELSE -1)
               /\ stdout = TrimSpace(LastOut)
               /\ stderr
          ELSE IF n = Len(Entries)
          THEN code = 0 /\ stdout = TrimSpace(LastOut) /\ ~stderr
          ELSE ~Decodes(Entries[n + 1]) /\ code = -1 /\ stdout = <<>> /\ stderr

\* the program ran for ["a","b"] and then for ["c"], both exited 0, and the
\* output of the second run came back trimmed
C10_Witness ==
  /\ ppc = "done"
  /\ o.ParamValue = <<"[\"a\",\"b\"]", "[\"c\"]">>
  /\ Len(invoked) = 2
  /\ invoked[1].args = <<"a", "b">>
  /\ invoked[2].args = <<"c">>
  /\ code = 0
  /\ LastOut = <<" ", "o", "\n">>
  /\ stdout = <<"o">>

\* the intake handles the STOP signal it received
StopHandled == apc = "signal" /\ chainSignal.Command = "STOP" /\ apc' # apc

OpsOf(calls) == {calls[i].op : i \in 1..Len(calls)}
\* the executions of a chain that are inside executeChain
InFlight(c) == {w \in Workers : chain[w] = c /\ pc[w] \in InExecuteChain}
\* the chain context of w was cancelled by a STOP: not by the root context
\* and not by a timeout
StoppedInFlight(w) ==
  /\ pc[w] \in InExecuteChain
  /\ ctxDone[w]
  /\ ~rootDone
  /\ ~HasTimeout(ChainTimeout, chains[chain[w]].Timeout)

\* C12, first part: handling a STOP cancels the context of every execution of
\* its chain that is in flight.
C12_StopCancelsEachExecution ==
  [][StopHandled => \A w \in InFlight(chainSignal.ConfigID) : ctxDone'[w]]_vars

\* C12, second part: an execution stopped in flight returns rolled back, not
\* committed, with its run status closed and its last task logged.
C12_StoppedChainRollsBack ==
  [][\A w \in Workers :
       (StoppedInFlight(w) /\ pc'[w] = "delete") =>
         /\ "RollbackTransaction" \in OpsOf(dbCalls'[w])
         /\ "CommitTransaction" \notin OpsOf(dbCalls'[w])
         /\ "RemoveChainRunStatus" \in OpsOf(dbCalls'[w])
         /\ elems'[w] # <<>>
         /\ elems'[w][Len(elems'[w])].logs = 1]_vars

\* C12: a STOP for a chain cancels the context of every execution of the chain
\* that is in flight, and an execution stopped in flight returns with its
\* transaction rolled back and not committed, its run status closed and the
\* outcome of its last task logged.
C12_StopCancelsAndRollsBack ==
  C12_StopCancelsEachExecution /\ C12_StoppedChainRollsBack

\* the intake makes its SendChain call for the START signal it received
SendCalled ==
  apc = "signal" /\ chainSignal.Command = "START" /\ Len(sendLog') = Len(sendLog) + 1
\* a chain leaves the channel
Dequeued == sendLog' = sendLog /\ chainsChan' # chainsChan

\* C13: SendChain never blocks; with free capacity the chain is appended at
\* the tail, on a full channel it is dropped and the channel is left as it
\* was, in every state and so also after earlier drops; a chain leaves the
\* channel only from the head and to exactly one worker.
C13_SendNeverBlocksOrCorrupts ==
  /\ []((apc = "signal" /\ chainSignal.Command = "START") => ENABLED AsyncSignalStart)
  /\ [][SendCalled =>
          /\ apc' = "wait"
          /\ IF Len(chainsChan) < ChanCap
             THEN /\ chainsChan' = Append(chainsChan, chainSignal.ConfigID)
                  /\ sendLog'[Len(sendLog')] = "sent"
             ELSE /\ chainsChan' = chainsChan
                  /\ sendLog'[Len(sendLog')] = "dropped"]_vars
  /\ [][Dequeued =>
          /\ chainsChan # <<>>
          /\ chainsChan' = Tail(chainsChan)
          /\ \E w \in Workers :
               /\ pc[w] = "wait" /\ pc'[w] = "admit"
               /\ chain'[w] = Head(chainsChan)
               /\ \A v \in Workers \ {w} : pc'[v] = pc[v] /\ chain'[v] = chain[v]]_vars

\* a chain was dropped on a full channel, a later chain was enqueued, and
\* every enqueued chain has been received while a worker is executing
C13_Witness ==
  /\ \E i, j \in 1..Len(sendLog) :
       i < j /\ sendLog[i] = "dropped" /\ sendLog[j] = "sent"
  /\ Len(sendLog) = MaxSignals
  /\ sendLog[MaxSignals] = "sent"
  /\ chainsChan = <<>>
  /\ \E w \in Workers : pc[w] \in InExecuteChain

TaskStarts(w) == pc[w] # "params" /\ pc'[w] = "params"

\* C15: the tasks of one executeChain call are started one after the other by
\* the worker that runs the chain, each one only when the one before has
\* returned, in the order of the list GetChainElements returned; no task is
\* started after a task with IgnoreError=false has returned non-zero.
C15_TasksInOrder ==
  /\ [](\A w \in Workers :
          /\ pc[w] \in {"params", "run"} => Len(elems[w]) = idx[w] - 1
          /\ pc[w] = "check" => Len(elems[w]) = idx[w]
          /\ pc[w] \in {"params", "run", "check"} => idx[w] \in 1..Len(Tasks(w)))
  /\ [][\A w \in Workers :
          TaskStarts(w) =>
            /\ idx'[w] = Len(elems[w]) + 1
            /\ elems'[w] = elems[w]
            /\ \A v \in Workers \ {w} : elems'[v] = elems[v] /\ idx'[v] = idx[v]
            /\ \A i \in 1..Len(elems[w]) :
                 elems[w][i].ret = 0 \/ Tasks(w)[i].IgnoreError]_vars

\* the second task of a chain is running after the first one failed with
\* IgnoreError=true
C15_Witness ==
  \E w \in Workers :
    /\ pc[w] = "run"
    /\ idx[w] = 2
    /\ Len(elems[w]) = 1
    /\ elems[w][1].ret # 0
    /\ Tasks(w)[1].IgnoreError

\* C16: once the root context is cancelled no worker takes a chain from the
\* channel or begins its admission, whatever waits in the channel.
C16_RootCancelWins ==
  [][rootDone =>
       /\ Len(chainsChan') >= Len(chainsChan)
       /\ \A w \in Workers : pc'[w] = "admit" => pc[w] = "admit"]_vars

TxOutcome == {"CommitTransaction", "RollbackTransaction"}
\* the positions of the calls of the given operations in dbCalls[w]
CallsOf(w, ops) == {i \in 1..Len(dbCalls[w]) : dbCalls[w][i].op \in ops}

\* C17: in the calls of an executeChain, every RemoveChainRunStatus comes
\* after the CommitTransaction or RollbackTransaction of the chain.
C17_OutcomeBeforeClose ==
  \A w \in Workers :
    \A i \in CallsOf(w, {"RemoveChainRunStatus"}) :
      \E j \in CallsOf(w, TxOutcome) : j < i

\* C18: every CommitTransaction and RollbackTransaction of executeChain is
\* issued on a background context, and so an executeChain that has returned
\* after starting its transaction has issued one of them on such a context.
C18_OutcomeOnBackgroundContext ==
  \A w \in Workers :
    /\ \A i \in CallsOf(w, TxOutcome) : dbCalls[w][i].bg
    /\ (pc[w] \in Returned /\ "StartTransaction" \in Ops(w)) =>
         \E i \in CallsOf(w, TxOutcome) : dbCalls[w][i].bg

\* C19: DeleteChainConfig is called only for a chain with SelfDestruct, after
\* its CommitTransaction, when every task passed or was ignored, and never
\* together with a RollbackTransaction.
C19_SelfDestructAfterCommit ==
  \A w \in Workers :
    \A i \in CallsOf(w, {"DeleteChainConfig"}) :
      /\ chains[chain[w]].SelfDestruct
      /\ \E j \in CallsOf(w, {"CommitTransaction"}) : j < i
      /\ CallsOf(w, {"RollbackTransaction"}) = {}
      /\ {"StartTransaction", "GetChainElements"} \subseteq Ops(w)
      /\ AllTasksPassed(w)

\* a self-destructing chain of two tasks has committed and deleted its
\* configuration
C19_Witness ==
  \E w \in Workers :
    /\ pc[w] \in Returned
    /\ Len(Tasks(w)) = 2
    /\ chains[chain[w]].SelfDestruct
    /\ CallsOf(w, {"DeleteChainConfig"}) # {}
    /\ CallsOf(w, {"CommitTransaction"}) # {}

\* C20: no lookup, iteration or length check of the registry made without
\* activeChainMutex is under way while a worker is inside the write of
\* addActiveChain or deleteActiveChain.
C20_RegistryUnderMutex ==
  \A w \in Writing :
    /\ activeChainMutex = w
    /\ ~ReadingUnlocked

\* C21: every wait between two lock attempts of TryLockClientName is at
\* least WaitTime and at most maxWaitTime.
C21_WaitWithinMax ==
  \A d \in Daemons :
    lpc[d] = "wait" => wt[d] >= WaitTime /\ wt[d] <= maxWaitTime

\* this daemon's session holds the advisory lock of its name
HoldsLock(d) == [key |-> LockKey(d), session |-> d] \in advisoryLock

\* C22: TryLockClientName has returned true only with the advisory lock held
\* by this session, and has returned false only with it not held.
C22_TrueIffAcquired ==
  \A d \in Daemons :
    /\ returned[d] = "true" => HoldsLock(d)
    /\ returned[d] = "false" => ~HoldsLock(d)

\* C23, first part: once terminateChains has returned, no worker is inside
\* executeChain.
C23_NoneInsideAfterTerminate ==
  tpc = "returned" => \A w \in Workers : pc[w] \notin InExecuteChain

\* C23, second part: once terminateChains has returned, no worker enters
\* executeChain.
C23_NoneEntersAfterTerminate ==
  [][tpc = "returned" =>
       \A w \in Workers : pc'[w] \in InExecuteChain => pc[w] \in InExecuteChain]_vars

\* C23: when terminateChains has returned no worker is inside executeChain,
\* and none enters it afterwards.
C23_TerminateWaitsForAll ==
  []C23_NoneInsideAfterTerminate /\ C23_NoneEntersAfterTerminate

====
